---- MODULE Spec2Model ----
(***************************************************************************)
(* A model of the Brainfuck-to-LLVM compiler in src/main.py: compile_bf    *)
(* scans the source text once and builds the basic blocks of bfmain with   *)
(* two stacks; main then runs bfmain over the memory and index globals.    *)
(*                                                                         *)
(* A source text is a sequence of one-character strings.  A basic block is *)
(* the sequence of the instruction groups compile_bf emitted into it, one  *)
(* group per source character (the group of '+' is load index, gep, load,  *)
(* add, store).  A block identifier is the block's position in the         *)
(* function's block list (entry = 1).  i32 values are kept as signed       *)
(* 32-bit integers, i8 cell values as 0..255.                              *)
(***************************************************************************)
EXTENDS Integers, Sequences, FiniteSets, TLC

\* ---------------------------------------------------------------- bounds
MaxLen == 3      \* every source text of at most this many characters
MaxOut == 3      \* bytes an execution may write before it is cut off
MaxCells == 3    \* nonzero cells an execution may hold before it is cut off
MaxLeft == 2     \* MoveLeft steps taken before the MoveRight run (SpecIdx)

\* ------------------------------------------------------------- constants
MEMORY_SIZE == 65536
ZERO_i8 == 0
ZERO_i32 == 0
ONE_i8 == 1
ONE_i32 == 1
MEMORY_MASK_i32 == MEMORY_SIZE - 1
I32_MAX == 2147483647
I32_MIN == (-I32_MAX) - 1

\* --------------------------------------------------------- integer types
\* i32 add and sub: two's complement, wrapping at 32 bits.
add_i32(a, b) ==
    IF b > 0 /\ a > I32_MAX - b THEN I32_MIN + ((a - (I32_MAX - b)) - 1)
    ELSE IF b < 0 /\ a < I32_MIN - b THEN I32_MAX - (((I32_MIN - b) - a) - 1)
    ELSE a + b

sub_i32(a, b) ==
    IF b > 0 /\ a < I32_MIN + b THEN I32_MAX - (((I32_MIN + b) - a) - 1)
    ELSE IF b < 0 /\ a > I32_MAX + b THEN I32_MIN + ((a - (I32_MAX + b)) - 1)
    ELSE a - b

\* Bitwise and of a two's complement value a with a non-negative mask m.
RECURSIVE and_(_, _)
and_(a, m) ==
    IF m = 0 THEN 0
    ELSE (a % 2) * (m % 2) + 2 * and_(a \div 2, m \div 2)

\* Variant: the sum is not reduced to 8 bits.
add_i8_wide(v, d) == v + d

\* i8 add and sub on cell values 0..255.
add_i8(v, d) == (v + d) % 256
sub_i8(v, d) == (v - d) % 256

\* The value ctypes hands to a Python callback for a c_int8 argument.
c_int8(v) == IF v >= 128 THEN v - 256 ELSE v

\* ------------------------------------------------------------ the source
Instructions == {">", "<", "+", "-", ".", ",", "[", "]"}
Alphabet == Instructions \cup {"\n", "x"}

Examples ==
    { <<"+", "[", "+", "[", "-", "]", "-", "]">>,
      <<"+", "+", "+", ".">>,
      <<"+", "[", "+", "]">>,
      <<"-", "[", "-", "]">>,
      <<"+", "\n", "[", "x", "]">>,
      <<"x", "\n", "x", "]">>,
      <<"[", "\n", "\n", "x">>,
      <<"[", "[", "]", "[", "]", "]">>,
      <<"+", "[", ">", "+", "[", "-", "]", "<", "-", "]">> }

Programs == UNION {[1..n -> Alphabet] : n \in 0..MaxLen} \cup Examples

\* Input streams (character codes) the host may offer on stdin.
Inputs == {<<>>, <<65>>}

\* ----------------------------------------------------------- the builder
NoError == [kind |-> "none", line |-> 0, col |-> 0]
ValueError(kind, line, col) == [kind |-> kind, line |-> line, col |-> col]

Ins(op) == [op |-> op, t |-> 0, f |-> 0]
\* Variant: the two targets of the branch are exchanged.
CBranch_swapped(t, f) == [op |-> "cbranch", t |-> f, f |-> t]

CBranch(t, f) == [op |-> "cbranch", t |-> t, f |-> f]
Terminators == {"cbranch", "ret"}

\* The compiler's locals as one record, so that one scan step is a function.
NewCompiler ==
    [blocks |-> << <<>> >>, block_stack |-> <<1>>, loop_stack |-> <<>>,
     builder |-> 1, line |-> 1, col |-> 1, err |-> NoError]

\* Variants: the bottom of the stack is read, nothing is popped.
Top_first(s) == s[1]
Pop_keep(s) == s

Top(s) == s[Len(s)]
Pop(s) == SubSeq(s, 1, Len(s) - 1)

\* func.append_basic_block(): a new empty block at the end of the list.
append_basic_block(st) == [st EXCEPT !.blocks = Append(@, <<>>)]

\* builder.<instruction>(): append at the end of the insertion block.
emit(st, ins) == [st EXCEPT !.blocks[st.builder] = Append(@, ins)]

\* Variant: the builder is not moved.
position_at_end_stay(st, b) == st

position_at_end(st, b) == [st EXCEPT !.builder = b]

\* Variants: the column is not reset, the line is not advanced.
next_col_noreset(col, ch) == col + 1
next_line_stuck(line, ch) == line

\* for ch in prog: col += 1; a newline resets col and advances line.
next_col(col, ch) == IF ch = "\n" THEN 1 ELSE col + 1
next_line(line, ch) == IF ch = "\n" THEN line + 1 ELSE line

advance(st, ch) ==
    [st EXCEPT !.col = next_col(st.col, ch), !.line = next_line(st.line, ch)]

emit_output(st) == emit(st, Ins("putc"))
emit_input(st) == emit(st, Ins("getc"))
emit_right(st) == emit(st, Ins("right"))
emit_left(st) == emit(st, Ins("left"))
emit_inc(st) == emit(st, Ins("inc"))
emit_dec(st) == emit(st, Ins("dec"))

\* Variant: the finished block stays on the stack.
push_loop_nopop(bs, loop_block, tail_block) ==
    Append(Append(bs, tail_block), loop_block)

\* elif ch == '[': two new blocks, a conditional branch, the stacks.
push_loop(bs, loop_block, tail_block) ==
    Append(Append(Pop(bs), tail_block), loop_block)

loop_open(st) ==
    LET loop_block == Len(st.blocks) + 1
        tail_block == Len(st.blocks) + 2
        s1 == append_basic_block(append_basic_block(st))
        s2 == emit(s1, CBranch(loop_block, tail_block))
        s3 == [s2 EXCEPT !.block_stack = push_loop(@, loop_block, tail_block),
                         !.loop_stack = Append(@, loop_block)]
    IN  position_at_end(s3, Top(s3.block_stack))

\* elif ch == ']': the guard, a conditional branch, pop both stacks.
no_open_loop(bs) == Len(bs) <= 1

loop_close(st) ==
    IF no_open_loop(st.block_stack)
    THEN [st EXCEPT !.err = ValueError("unmatched ]", st.line, st.col)]
    ELSE IF st.loop_stack = <<>> \/ Len(st.block_stack) < 2
    THEN [st EXCEPT !.err = ValueError("IndexError", 0, 0)]
    ELSE LET s1 == emit(st, CBranch(Top(st.loop_stack),
                                    st.block_stack[Len(st.block_stack) - 1]))
             s2 == [s1 EXCEPT !.block_stack = Pop(@), !.loop_stack = Pop(@)]
         IN  position_at_end(s2, Top(s2.block_stack))

\* Variant: an unrecognised character is compiled as '+'.
skip_as_inc(st) == emit_inc(st)

\* else: continue
skip(st) == st

\* One iteration of the for loop over the source.
scan(st, ch) ==
    LET s == advance(st, ch)
    IN  CASE ch = "\n" -> s
          [] ch = "." -> emit_output(s)
          [] ch = "," -> emit_input(s)
          [] ch = ">" -> emit_right(s)
          [] ch = "<" -> emit_left(s)
          [] ch = "+" -> emit_inc(s)
          [] ch = "-" -> emit_dec(s)
          [] ch = "[" -> loop_open(s)
          [] ch = "]" -> loop_close(s)
          [] OTHER -> skip(s)

\* llvm.parse_assembly accepts a function whose every block is non-empty and
\* has its one terminator as its last instruction.
well_formed(blk) ==
    /\ Len(blk) >= 1
    /\ blk[Len(blk)].op \in Terminators
    /\ \A k \in 1..(Len(blk) - 1) : blk[k].op \notin Terminators

parse_assembly(st) ==
    IF \A b \in 1..Len(st.blocks) : well_formed(st.blocks[b])
    THEN st
    ELSE [st EXCEPT !.err = ValueError("parse", 0, 0)]

\* After the loop: the open-bracket check, ret void, parse.
open_loops(bs) == Len(bs) # 1

finish(st) ==
    IF open_loops(st.block_stack)
    THEN [st EXCEPT !.err = ValueError("unmatched [", st.line, st.col)]
    ELSE parse_assembly(emit(st, Ins("ret")))

\* compile_bf as a function of the source text.
RECURSIVE scan_from(_, _, _)
scan_from(st, text, k) ==
    IF k > Len(text) \/ st.err.kind # "none" THEN st
    ELSE scan_from(scan(st, text[k]), text, k + 1)

compile_bf(text) ==
    LET st == scan_from(NewCompiler, text, 1)
    IN  IF st.err.kind # "none" THEN st ELSE finish(st)

\* -------------------------------------------------------- the run time
\* &g_memory[0][index]: the cell the pointer designates, counted from the
\* start of memory; the i32 index is sign-extended.
gep(i0, i1) == i0 * MEMORY_SIZE + i1
\* Variant: the pointer to the first cell, whatever the index.
current_index_ptr_base(idx) == gep(ZERO_i32, ZERO_i32)

current_index_ptr(idx) == gep(ZERO_i32, idx)

\* memory holds the nonzero cells; every other cell is zero.
load(mem, p) == IF p \in DOMAIN mem THEN mem[p] ELSE 0

store(mem, p, v) ==
    IF v = 0 THEN [q \in DOMAIN mem \ {p} |-> mem[q]]
    ELSE [q \in DOMAIN mem \cup {p} |-> IF q = p THEN v ELSE mem[q]]

\* Variants: the and with MEMORY_MASK_i32 is left out.
move_right_unmasked(idx) == add_i32(idx, ONE_i32)
move_left_unmasked(idx) == sub_i32(idx, ONE_i32)

move_right(idx) == and_(add_i32(idx, ONE_i32), MEMORY_MASK_i32)
move_left(idx) == and_(sub_i32(idx, ONE_i32), MEMORY_MASK_i32)

increment(v) == add_i8(v, ONE_i8)
decrement(v) == sub_i8(v, ONE_i8)

\* Variant: the comparison is '=='.
icmp_eq(a, b) == a = b

\* icmp_unsigned('!=', value, ZERO_i8)
icmp_ne(a, b) == a # b

\* Variant: the character code is not masked.
putc_unmasked(c) == c

\* putc(c): chr(c & 0x7f), as the code of the character written.
putc(c) == and_(c, 127)

\* getc(): sys.stdin.read(1), a str of one character, empty at end of stream.
getc(stream, pos) ==
    [type |-> "str",
     val |-> IF pos < Len(stream) THEN <<stream[pos + 1]>> ELSE <<>>]

\* The byte an unset c_int8 result slot may hold.
Undef8 == {0, 1, 65, 255}

\* GETC_WRAPPER: ctypes converts the callback's result to c_int8; a result
\* that is not an int is not converted and the result slot stays unset.
GETC_WRAPPER(result) ==
    IF result.type = "int" THEN {result.val % 256} ELSE Undef8

\* ----------------------------------------------------------------- state
VARIABLES
    prog,         \* the source text given to compile_bf
    stdin,        \* the host's input stream
    stdin_pos,    \* characters of stdin already read
    pc,           \* "scan", "error", "compiled", "run", "halted", "idx"
    i,            \* characters of prog already scanned
    blocks,       \* the basic blocks of bfmain
    block_stack,
    loop_stack,
    builder,      \* the builder's insertion block
    line,
    col,
    err,          \* the exception compile_bf raised, NoError if none
    block,        \* the block being executed
    ip,           \* the next instruction of that block
    memory,       \* the memory global
    index,        \* the index global
    ptr,          \* the cell pointer computed last, as <<p>>; << >> before
    output,       \* the bytes written to stdout
    executed,     \* the instruction executed last, "" before the first
    sentinels,    \* the bytes Input stored when stdin was at its end
    start,        \* SpecIdx: the index the MoveRight run started from
    steps         \* SpecIdx: MoveRight steps of the run

cvars == <<blocks, block_stack, loop_stack, builder, line, col, err>>
xvars == <<block, ip, memory, index, ptr, output, executed, stdin_pos>>
ivars == <<start, steps>>
vars == <<prog, stdin, pc, i, cvars, xvars, sentinels, ivars>>

Compiler ==
    [blocks |-> blocks, block_stack |-> block_stack, loop_stack |-> loop_stack,
     builder |-> builder, line |-> line, col |-> col, err |-> err]

Install(st) ==
    /\ blocks' = st.blocks
    /\ block_stack' = st.block_stack
    /\ loop_stack' = st.loop_stack
    /\ builder' = st.builder
    /\ line' = st.line
    /\ col' = st.col
    /\ err' = st.err

Globals ==
    /\ block = 1
    /\ ip = 1
    /\ memory = << >>
    /\ index = 0
    /\ ptr = << >>
    /\ output = << >>
    /\ executed = ""
    /\ sentinels = {}
    /\ stdin_pos = 0

Init ==
    /\ prog \in Programs
    /\ stdin \in Inputs
    /\ pc = "scan"
    /\ i = 0
    /\ blocks = NewCompiler.blocks
    /\ block_stack = NewCompiler.block_stack
    /\ loop_stack = NewCompiler.loop_stack
    /\ builder = NewCompiler.builder
    /\ line = NewCompiler.line
    /\ col = NewCompiler.col
    /\ err = NewCompiler.err
    /\ Globals
    /\ start = 0
    /\ steps = 0

\* --------------------------------------------------------- compile_bf
\* One action per branch of the loop body over the next character.
\* Variant: the scan does not move on to the next character.
Next_is_stuck(ch) ==
    /\ pc = "scan"
    /\ i < Len(prog)
    /\ prog[i + 1] = ch
    /\ i' = i
    /\ UNCHANGED <<prog, stdin, xvars, sentinels, ivars>>

Next_is(ch) ==
    /\ pc = "scan"
    /\ i < Len(prog)
    /\ prog[i + 1] = ch
    /\ i' = i + 1
    /\ UNCHANGED <<prog, stdin, xvars, sentinels, ivars>>

\* Variant: a raised error does not end the scan.
Becomes_continue(st) ==
    /\ Install(st)
    /\ pc' = "scan"

Becomes(st) ==
    /\ Install(st)
    /\ pc' = IF st.err.kind # "none" THEN "error" ELSE "scan"

ScanNewline ==
    /\ Next_is("\n")
    /\ Becomes(advance(Compiler, "\n"))

ScanOutput ==
    /\ Next_is(".")
    /\ Becomes(emit_output(advance(Compiler, ".")))

ScanInput ==
    /\ Next_is(",")
    /\ Becomes(emit_input(advance(Compiler, ",")))

ScanRight ==
    /\ Next_is(">")
    /\ Becomes(emit_right(advance(Compiler, ">")))

ScanLeft ==
    /\ Next_is("<")
    /\ Becomes(emit_left(advance(Compiler, "<")))

ScanInc ==
    /\ Next_is("+")
    /\ Becomes(emit_inc(advance(Compiler, "+")))

ScanDec ==
    /\ Next_is("-")
    /\ Becomes(emit_dec(advance(Compiler, "-")))

ScanLoopOpen ==
    /\ Next_is("[")
    /\ Becomes(loop_open(advance(Compiler, "[")))

ScanLoopClose ==
    /\ Next_is("]")
    /\ Becomes(loop_close(advance(Compiler, "]")))

ScanOther ==
    \E ch \in Alphabet \ (Instructions \cup {"\n"}) :
        /\ Next_is(ch)
        /\ Becomes(skip(advance(Compiler, ch)))

\* The source is exhausted: check, ret void, parse, return or raise.
Finish ==
    /\ pc = "scan"
    /\ i = Len(prog)
    /\ LET st == finish(Compiler)
       IN  /\ Install(st)
           /\ pc' = IF st.err.kind # "none" THEN "error" ELSE "compiled"
    /\ UNCHANGED <<prog, stdin, i, xvars, sentinels, ivars>>

\* ------------------------------------------------------------- bfmain
\* main: bfmain() is called at the entry block.
Run ==
    /\ pc = "compiled"
    /\ pc' = "run"
    /\ block' = 1
    /\ ip' = 1
    /\ UNCHANGED <<prog, stdin, i, cvars, ivars>>
    /\ UNCHANGED <<memory, index, ptr, output, executed, sentinels, stdin_pos>>

At(op) ==
    /\ pc = "run"
    /\ ip <= Len(blocks[block])
    /\ blocks[block][ip].op = op
    /\ executed' = op
    /\ op # "getc" => sentinels' = sentinels
    /\ UNCHANGED <<prog, stdin, i, cvars, ivars>>

Fits(mem) == Cardinality(DOMAIN mem) <= MaxCells

ExecOutput ==
    /\ At("putc")
    /\ Len(output) < MaxOut
    /\ LET p == current_index_ptr(index)
           value == load(memory, p)
       IN  /\ ptr' = <<p>>
           /\ output' = Append(output, putc(c_int8(value)))
    /\ ip' = ip + 1
    /\ UNCHANGED <<pc, block, memory, index, stdin_pos>>

ExecInput ==
    /\ At("getc")
    /\ \E res \in GETC_WRAPPER(getc(stdin, stdin_pos)) :
          LET p == current_index_ptr(index)
          IN  /\ ptr' = <<p>>
              /\ memory' = store(memory, p, res)
              /\ Fits(memory')
              /\ sentinels' = IF stdin_pos < Len(stdin) THEN sentinels
                               ELSE sentinels \cup {res}
    /\ stdin_pos' = IF stdin_pos < Len(stdin) THEN stdin_pos + 1 ELSE stdin_pos
    /\ ip' = ip + 1
    /\ UNCHANGED <<pc, block, index, output>>

ExecRight ==
    /\ At("right")
    /\ index' = move_right(index)
    /\ ip' = ip + 1
    /\ UNCHANGED <<pc, block, memory, ptr, output, stdin_pos>>

ExecLeft ==
    /\ At("left")
    /\ index' = move_left(index)
    /\ ip' = ip + 1
    /\ UNCHANGED <<pc, block, memory, ptr, output, stdin_pos>>

ExecInc ==
    /\ At("inc")
    /\ LET p == current_index_ptr(index)
           value == load(memory, p)
       IN  /\ ptr' = <<p>>
           /\ memory' = store(memory, p, increment(value))
           /\ Fits(memory')
    /\ ip' = ip + 1
    /\ UNCHANGED <<pc, block, index, output, stdin_pos>>

ExecDec ==
    /\ At("dec")
    /\ LET p == current_index_ptr(index)
           value == load(memory, p)
       IN  /\ ptr' = <<p>>
           /\ memory' = store(memory, p, decrement(value))
           /\ Fits(memory')
    /\ ip' = ip + 1
    /\ UNCHANGED <<pc, block, index, output, stdin_pos>>

\* The conditional branch of '[' and of ']': load, icmp !=, br.
ExecCBranch ==
    /\ At("cbranch")
    /\ LET p == current_index_ptr(index)
           value == load(memory, p)
           nonzero == icmp_ne(value, ZERO_i8)
       IN  /\ ptr' = <<p>>
           /\ block' = IF nonzero THEN blocks[block][ip].t
                                  ELSE blocks[block][ip].f
    /\ ip' = 1
    /\ UNCHANGED <<pc, memory, index, output, stdin_pos>>

ExecRet ==
    /\ At("ret")
    /\ pc' = "halted"
    /\ UNCHANGED <<block, ip, memory, index, ptr, output, stdin_pos>>

Next ==
    \/ ScanNewline \/ ScanOutput \/ ScanInput \/ ScanRight \/ ScanLeft
    \/ ScanInc \/ ScanDec \/ ScanLoopOpen \/ ScanLoopClose \/ ScanOther
    \/ Finish \/ Run
    \/ ExecOutput \/ ExecInput \/ ExecRight \/ ExecLeft \/ ExecInc
    \/ ExecDec \/ ExecCBranch \/ ExecRet

Spec == Init /\ [][Next]_vars

\* The run of a sequential program always takes its next step.
SpecLive == Init /\ [][Next]_vars /\ WF_vars(Next)

\* ------------------------------------------------- the index arithmetic
\* The index global under the instruction groups of '<' and '>' alone:
\* up to MaxLeft MoveLeft steps from the initial index, then a run of
\* MoveRight steps once around the buffer.
IdxInit ==
    /\ prog = << >>
    /\ stdin = << >>
    /\ pc = "idx"
    /\ i = 0
    /\ blocks = NewCompiler.blocks
    /\ block_stack = NewCompiler.block_stack
    /\ loop_stack = NewCompiler.loop_stack
    /\ builder = NewCompiler.builder
    /\ line = NewCompiler.line
    /\ col = NewCompiler.col
    /\ err = NewCompiler.err
    /\ Globals
    /\ start = 0
    /\ steps = 0

IdxLeft ==
    /\ pc = "idx"
    /\ steps = 0
    /\ start = 0 \/ start > MEMORY_SIZE - MaxLeft
    /\ index' = move_left(index)
    /\ start' = index'
    /\ executed' = "left"
    /\ UNCHANGED <<prog, stdin, pc, i, cvars, steps>>
    /\ UNCHANGED <<block, ip, memory, ptr, output, sentinels, stdin_pos>>

IdxRight ==
    /\ pc = "idx"
    /\ steps < MEMORY_SIZE
    /\ index' = move_right(index)
    /\ steps' = steps + 1
    /\ executed' = "right"
    /\ UNCHANGED <<prog, stdin, pc, i, cvars, start>>
    /\ UNCHANGED <<block, ip, memory, ptr, output, sentinels, stdin_pos>>

IdxNext == IdxLeft \/ IdxRight

SpecIdx == IdxInit /\ [][IdxNext]_vars

\* ------------------------------------------------------------ properties
Count(text, ch, k) == Cardinality({j \in 1..k : text[j] = ch})

\* Every prefix has at least as many '[' as ']' and the totals are equal.
Balanced(text) ==
    /\ \A k \in 0..Len(text) : Count(text, "[", k) >= Count(text, "]", k)
    /\ Count(text, "[", Len(text)) = Count(text, "]", Len(text))

\* The position of the last newline among the first k characters, 0 if none.
LastNewline(text, k) ==
    IF \E j \in 1..k : text[j] = "\n"
    THEN CHOOSE j \in 1..k : text[j] = "\n" /\ \A m \in (j + 1)..k : text[m] # "\n"
    ELSE 0

LineAt(text, k) == 1 + Count(text, "\n", k)
ColumnAt(text, k) == 1 + (k - LastNewline(text, k))

Nested == <<"+", "[", "+", "[", "-", "]", "-", "]">>

\* C1: a source text with balanced brackets never makes compile_bf raise,
\* and once compile_bf has returned BlockStack holds exactly one element and
\* LoopStack none.
C1_BalancedCompiles ==
    (pc # "idx" /\ Balanced(prog)) =>
        /\ pc # "error"
        /\ err = NoError
        /\ pc # "scan" => Len(block_stack) = 1 /\ Len(loop_stack) = 0

C1_Witness ==
    /\ prog = Nested
    /\ pc = "compiled"
    /\ Len(blocks) = 5

\* C2: scanning a ']' while BlockStack has one element raises the
\* unmatched ] error; its line is 1 plus the newlines before the ']', its
\* column 1 plus the characters of that line up to and including the ']';
\* for the source "]" that is line 1, column 2.
C2_UnmatchedClose ==
    [][(pc = "scan" /\ i < Len(prog) /\ prog[i + 1] = "]"
            /\ Len(block_stack) = 1) =>
          /\ pc' = "error"
          /\ err' = ValueError("unmatched ]", LineAt(prog, i),
                               ColumnAt(prog, i + 1))
          /\ prog = <<"]">> => err'.line = 1 /\ err'.col = 2]_vars

C2_Witness ==
    /\ pc = "error"
    /\ err.kind = "unmatched ]"
    /\ err.line = 2
    /\ err.col = 3

\* C3: when the scan ends with a loop still open compile_bf raises the
\* unmatched [ error at the end-of-input position: line 1 plus the newlines
\* of the source, column 1 plus the characters after the last newline; for
\* the source "[" that is line 1, column 2.
C3_UnmatchedOpen ==
    [][(pc = "scan" /\ i = Len(prog) /\ Len(block_stack) > 1) =>
          /\ pc' = "error"
          /\ err' = ValueError("unmatched [", LineAt(prog, Len(prog)),
                               ColumnAt(prog, Len(prog)))
          /\ prog = <<"[">> => err'.line = 1 /\ err'.col = 2]_vars

C3_Witness ==
    /\ pc = "error"
    /\ err.kind = "unmatched ["
    /\ err.line = 3
    /\ err.col = 2

\* The instruction group bfmain executes next, "" when it is not running.
NextOp ==
    IF pc = "run" /\ ip <= Len(blocks[block]) THEN blocks[block][ip].op ELSE ""

Cell == load(memory, index)

\* C4: running ",." on an input stream whose first byte is b writes exactly
\* the one byte b.
C4_InputEcho ==
    (prog = <<",", ".">> /\ pc = "halted" /\ Len(stdin) >= 1) =>
        output = <<stdin[1]>>

\* C5: every executed Output writes exactly one byte, the low 7 bits of the
\* current cell, at the end of the output stream, no other instruction
\* writes, and "+++." has written the one byte 3 when it returns.
C5_OutputLow7 ==
    [][/\ NextOp = "putc" => output' = Append(output, Cell % 128)
       /\ NextOp # "putc" => output' = output
       /\ (prog = <<"+", "+", "+", ".">> /\ pc' = "halted") => output' = <<3>>
      ]_vars

C5_Witness ==
    /\ pc = "halted"
    /\ executed = "ret"
    /\ Cell = 255
    /\ output = <<127>>

\* C6: Increment leaves v + 1 in the current cell, 0 when v is 255, and
\* Decrement leaves v - 1, 255 when v is 0; the cell stays within 0..255.
C6_CellWraps ==
    [][/\ NextOp = "inc" =>
            load(memory', index') = (IF Cell = 255 THEN 0 ELSE Cell + 1)
       /\ NextOp = "dec" =>
            load(memory', index') = (IF Cell = 0 THEN 255 ELSE Cell - 1)
       /\ load(memory', index') \in 0..255
      ]_vars

C6_Witness ==
    /\ prog = <<"+", "[", "+", "]">>
    /\ executed = "inc"
    /\ ip = 2
    /\ Cell = 0

\* C7: MoveLeft at index 0 yields MEMORY_SIZE - 1, MoveRight at index
\* MEMORY_SIZE - 1 yields 0, and MEMORY_SIZE MoveRight steps from the index
\* the run started at lead back to that index: after k MoveRight steps the
\* index is the starting index plus k, modulo MEMORY_SIZE.
C7_IndexWraps ==
    /\ [](steps = MEMORY_SIZE => index = start)
    /\ [](pc = "idx" => index = (start + steps) % MEMORY_SIZE)
    /\ [][/\ (executed' = "left" /\ index = 0) => index' = 65535
          /\ (executed' = "right" /\ index = 65535) => index' = 0
         ]_vars

C7_Witness ==
    /\ pc = "idx"
    /\ steps = MEMORY_SIZE
    /\ start = MEMORY_SIZE - 2
    /\ index = start

\* C8: while bfmain runs and after it returns the stored index lies in
\* 0..MEMORY_SIZE-1, and so does every cell pointer computed for a load or a
\* store and every cell stored to.
C8_InBounds ==
    pc \in {"run", "halted"} =>
        /\ index \in 0..(MEMORY_SIZE - 1)
        /\ \A k \in 1..Len(ptr) : ptr[k] \in 0..(MEMORY_SIZE - 1)
        /\ DOMAIN memory \subseteq 0..(MEMORY_SIZE - 1)

C8_Witness ==
    /\ pc = "halted"
    /\ index = MEMORY_SIZE - 1
    /\ ptr = <<MEMORY_SIZE - 1>>
    /\ DOMAIN memory = {MEMORY_SIZE - 1}

Forever == <<"+", "[", "]">>

\* C9: "+[]" compiles without an error, its execution never returns, and
\* from some point on it stays in the loop block, taking the branch of the
\* ']' back to it again and again.
C9_LoopForever ==
    /\ [](prog = Forever => pc \notin {"error", "halted"})
    /\ [](prog = Forever =>
            <>[](pc = "run" /\ block = 2 /\ executed = "cbranch"))

C9_Witness ==
    /\ prog = Forever
    /\ err = NoError
    /\ pc = "run"
    /\ block = 2
    /\ executed = "cbranch"
    /\ NextOp = "cbranch"

Strip(text) == SelectSeq(text, LAMBDA ch : ch \in Instructions)

\* C10: compile_bf ends on a source text as it ends on the text without
\* its non-instruction characters: the same error kind or none, and on
\* success the same blocks with the same instructions and branch targets.
C10_CommentsIgnored ==
    pc \in {"error", "compiled"} =>
        LET stripped == compile_bf(Strip(prog))
        IN  /\ err.kind = stripped.err.kind
            /\ err.kind = "none" => blocks = stripped.blocks

C10_Witness ==
    /\ pc = "compiled"
    /\ prog = <<"+", "\n", "[", "x", "]">>
    /\ blocks = compile_bf(<<"+", "[", "]">>).blocks
    /\ Len(blocks) = 3

\* C11: an error ends the translation at once.  The step that detects an
\* unmatched ']' emits nothing and leaves both stacks as they are, the step
\* that detects an open loop at the end emits no ret, no step follows a
\* raised error, and a source with an unmatched ']' before an unclosed '['
\* ends with the unmatched ] error.
C11_ErrorsAbort ==
    /\ [][/\ (pc = "scan" /\ i < Len(prog) /\ prog[i + 1] = "]"
                /\ Len(block_stack) = 1) =>
              /\ pc' = "error"
              /\ err'.kind = "unmatched ]"
              /\ <<blocks, block_stack, loop_stack, builder>>'
                    = <<blocks, block_stack, loop_stack, builder>>
          /\ (pc = "scan" /\ i = Len(prog) /\ Len(block_stack) > 1) =>
              /\ pc' = "error"
              /\ err'.kind = "unmatched ["
              /\ blocks' = blocks
          /\ pc # "error"
         ]_vars
    /\ []((pc = "error" /\ prog = <<"]", "[">>) =>
            (err.kind = "unmatched ]" /\ i = 1))

C11_Witness ==
    /\ prog = <<"]", "[">>
    /\ pc = "error"
    /\ err = ValueError("unmatched ]", 1, 2)
    /\ blocks = << << >> >>

AtEndOfStream == stdin_pos >= Len(stdin)

\* C12: every Input executed at the end of the input stream stores the same
\* one sentinel byte in the current cell, and the execution goes on with the
\* next instruction.
C12_PinnedSentinel ==
    /\ [](Cardinality(sentinels) <= 1)
    /\ [][(NextOp = "getc" /\ AtEndOfStream) =>
              /\ sentinels' = sentinels \cup {load(memory', index')}
              /\ pc' = "run"
              /\ block' = block
              /\ ip' = ip + 1
         ]_vars

\* Loops open after the first k characters.
Depth(text, k) == Count(text, "[", k) - Count(text, "]", k)

\* The position of the '[' that the ']' at position k closes.
MatchOpen(text, k) ==
    CHOOSE j \in 1..k :
        /\ text[j] = "["
        /\ Depth(text, j - 1) = Depth(text, k)
        /\ \A m \in (j + 1)..(k - 1) : Depth(text, m) > Depth(text, k)

\* The position of the ']' that closes the '[' at position j, 0 if none.
MatchClose(text, j) ==
    IF \E k \in (j + 1)..Len(text) :
            text[k] = "]" /\ Depth(text, k) = Depth(text, j - 1)
    THEN CHOOSE k \in (j + 1)..Len(text) :
            /\ text[k] = "]"
            /\ Depth(text, k) = Depth(text, j - 1)
            /\ \A m \in j..(k - 1) : Depth(text, m) > Depth(text, j - 1)
    ELSE 0

\* The blocks the '[' at position j creates: each '[' appends its loop block
\* and then its tail block after the entry block.
LoopBlockOf(text, j) == 2 * Count(text, "[", j)
TailBlockOf(text, j) == 2 * Count(text, "[", j) + 1

\* C13: the '[' at position j creates the blocks LoopBlockOf(j) and
\* TailBlockOf(j); the branch emitted at a matched ']' goes to the loop block
\* of its matching '[' when the cell is nonzero and to the tail block of
\* that '[' when it is zero, and the insertion point after the ']' is that
\* tail block.
C13_BranchTargets ==
    [][/\ (pc = "scan" /\ i < Len(prog) /\ prog[i + 1] = "[") =>
            /\ Len(blocks') = Len(blocks) + 2
            /\ LoopBlockOf(prog, i + 1) = Len(blocks) + 1
            /\ TailBlockOf(prog, i + 1) = Len(blocks) + 2
            /\ blocks'[builder][Len(blocks'[builder])] =
                  [op |-> "cbranch", t |-> Len(blocks) + 1,
                   f |-> Len(blocks) + 2]
       /\ (pc = "scan" /\ i < Len(prog) /\ prog[i + 1] = "]"
             /\ Len(block_stack) > 1) =>
            LET j == MatchOpen(prog, i + 1)
            IN  /\ Len(blocks'[builder]) = Len(blocks[builder]) + 1
                /\ blocks'[builder][Len(blocks'[builder])] =
                      [op |-> "cbranch", t |-> LoopBlockOf(prog, j),
                       f |-> TailBlockOf(prog, j)]
                /\ builder' = TailBlockOf(prog, j)
      ]_vars

C13_Witness ==
    /\ prog = Nested
    /\ pc = "scan"
    /\ i = 8
    /\ builder = 3
    /\ blocks[5][Len(blocks[5])] = [op |-> "cbranch", t |-> 2, f |-> 3]
    /\ blocks[4][Len(blocks[4])] = [op |-> "cbranch", t |-> 4, f |-> 5]

\* C14: while compile_bf scans and when it has returned, LoopStack has one
\* element less than BlockStack and BlockStack has one element more than
\* there are loops open after the characters scanned; BlockStack is never
\* empty.
C14_StackDepth ==
    /\ pc \in {"scan", "compiled"} =>
          /\ Len(loop_stack) = Len(block_stack) - 1
          /\ Len(block_stack) = Depth(prog, i) + 1
    /\ Len(block_stack) >= 1

C14_Witness ==
    /\ prog = Nested
    /\ pc = "scan"
    /\ i = 4
    /\ Len(block_stack) = 3
    /\ Len(loop_stack) = 2

\* ------------------------------------------- the reference interpreter
\* The first instruction character at or after position k, Len + 1 if none.
NextIns(text, k) ==
    IF \E m \in k..Len(text) : text[m] \in Instructions
    THEN CHOOSE m \in k..Len(text) :
            /\ text[m] \in Instructions
            /\ \A q \in k..(m - 1) : text[q] \notin Instructions
    ELSE Len(text) + 1

\* One step of an interpreter that works on the source text: r.p is the
\* position of the instruction to execute, res the byte an Input receives.
RefStep(text, r, res) ==
    LET ch == text[r.p]
        v == load(r.memory, r.index)
        on == [r EXCEPT !.p = NextIns(text, r.p + 1)]
    IN  CASE ch = ">" -> [on EXCEPT !.index = (r.index + 1) % MEMORY_SIZE]
          [] ch = "<" -> [on EXCEPT !.index = (r.index - 1) % MEMORY_SIZE]
          [] ch = "+" ->
               [on EXCEPT !.memory = store(r.memory, r.index, (v + 1) % 256)]
          [] ch = "-" ->
               [on EXCEPT !.memory = store(r.memory, r.index, (v - 1) % 256)]
          [] ch = "." -> [on EXCEPT !.output = Append(r.output, v % 128)]
          [] ch = "," ->
               [on EXCEPT !.memory = store(r.memory, r.index, res),
                          !.stdin_pos = IF r.stdin_pos < Len(stdin)
                                        THEN r.stdin_pos + 1 ELSE r.stdin_pos]
          [] ch = "[" ->
               IF v = 0
               THEN [r EXCEPT !.p = NextIns(text, MatchClose(text, r.p) + 1)]
               ELSE on
          [] ch = "]" ->
               IF v # 0
               THEN [r EXCEPT !.p = NextIns(text, MatchOpen(text, r.p) + 1)]
               ELSE on

\* The position in the source where the instructions of block b begin.
StartOf(text, b) ==
    IF b = 1 THEN 1
    ELSE LET j == CHOOSE m \in 1..Len(text) :
                     text[m] = "[" /\ Count(text, "[", m) = b \div 2
         IN  IF b % 2 = 0 THEN j + 1 ELSE MatchClose(text, j) + 1

\* The position of the n-th instruction character from position k on.
NthIns(text, k, n) ==
    IF n <= 1 THEN NextIns(text, k)
    ELSE LET InsIn(m) == {q \in k..m : text[q] \in Instructions}
         IN  IF \E m \in k..Len(text) :
                    text[m] \in Instructions /\ Cardinality(InsIn(m)) = n
             THEN CHOOSE m \in k..Len(text) :
                    text[m] \in Instructions /\ Cardinality(InsIn(m)) = n
             ELSE Len(text) + 1

\* The state of bfmain as a state of the interpreter.
Abs ==
    [p |-> NthIns(prog, StartOf(prog, block), ip), memory |-> memory,
     index |-> index, output |-> output, stdin_pos |-> stdin_pos]

RefInit ==
    [p |-> NextIns(prog, 1), memory |-> << >>, index |-> 0,
     output |-> << >>, stdin_pos |-> 0]

Terminated(blk) == Len(blk) >= 1 /\ blk[Len(blk)].op \in Terminators

TerminatorsIn(blk) == {k \in 1..Len(blk) : blk[k].op \in Terminators}

\* C16: no instruction is emitted into a block that already has its
\* terminator and parse_assembly never rejects the function; when compile_bf
\* has returned, every block holds exactly one terminator, as its last
\* instruction, and the one ret is the last instruction of the single block
\* left on BlockStack.
C16_OneTerminator ==
    /\ [][\A b \in 1..Len(blocks) :
              blocks'[b] # blocks[b] => ~Terminated(blocks[b])]_vars
    /\ [](err.kind # "parse")
    /\ [](pc \in {"compiled", "run", "halted"} =>
            /\ \A b \in 1..Len(blocks) :
                  /\ Terminated(blocks[b])
                  /\ Cardinality(TerminatorsIn(blocks[b])) = 1
            /\ Len(block_stack) = 1
            /\ \A b \in 1..Len(blocks) :
                  (\E k \in 1..Len(blocks[b]) : blocks[b][k].op = "ret")
                      <=> b = block_stack[1])

C16_Witness ==
    /\ prog = Nested
    /\ pc = "compiled"
    /\ block_stack = <<3>>
    /\ blocks[3] = <<Ins("ret")>>

\* C17: compile_bf scans the characters one by one from first to last, each
\* step taking the next one, and always ends: it returns after the last
\* character or raises one of the two bracket errors.
C17_CompileTerminates ==
    /\ <>(pc \in {"compiled", "error"})
    /\ [](pc = "compiled" => i = Len(prog))
    /\ [](pc = "error" => err.kind \in {"unmatched ]", "unmatched ["})
    /\ [][pc = "scan" => (i' = i + 1 /\ i' <= Len(prog))
                            \/ (i' = i /\ i = Len(prog) /\ pc' # "scan")
         ]_vars

C17_Witness ==
    /\ prog = Forever
    /\ pc = "compiled"
    /\ i = 3

\* The cells of two memories agree everywhere but at pointer p.
SameBut(mem1, mem2, p) ==
    \A q \in (DOMAIN mem1 \cup DOMAIN mem2) \ {p} : load(mem1, q) = load(mem2, q)

\* C18: MoveRight and MoveLeft leave every cell unchanged; Increment,
\* Decrement and Input leave the index and every cell but the current one
\* unchanged; Output and the loop tests leave the index and every cell
\* unchanged.
C18_Frame ==
    [][/\ NextOp \in {"right", "left"} => memory' = memory /\ index' # index
       /\ NextOp \in {"inc", "dec", "getc"} =>
             index' = index /\ SameBut(memory, memory', index)
       /\ NextOp \in {"inc", "dec"} => load(memory', index) # Cell
       /\ NextOp \in {"putc", "cbranch"} =>
             index' = index /\ memory' = memory
      ]_vars

C18_Witness ==
    /\ prog = <<"+", ">", "-">>
    /\ pc = "halted"
    /\ index = 1
    /\ load(memory, 0) = 1
    /\ load(memory, 1) = 255

\* C19: a branch that enters a tail block finds the current cell 0 and a
\* branch that enters a loop block finds it nonzero (loop blocks are the
\* even blocks, tail blocks the odd ones after the entry).
C19_BranchCondition ==
    [][NextOp = "cbranch" =>
          /\ block' > 1
          /\ block' % 2 = 1 => load(memory', index') = 0
          /\ block' % 2 = 0 => load(memory', index') # 0
      ]_vars

C19_Witness ==
    /\ prog = <<"+", "[", ">", "+", "[", "-", "]", "<", "-", "]">>
    /\ pc = "run"
    /\ executed = "cbranch"
    /\ block = 5
    /\ ip = 1
    /\ Cell = 0

\* C20: scanning '[' replaces the top of BlockStack by the new tail block
\* and pushes the new loop block on it and on LoopStack; scanning a matched
\* ']' pops one element from each; scanning any other character leaves both
\* stacks and the insertion block unchanged.
C20_StackFrame ==
    [][(pc = "scan" /\ i < Len(prog)) =>
          LET ch == prog[i + 1]
              n == Len(block_stack)
          IN  /\ ch = "[" =>
                    /\ block_stack' =
                          SubSeq(block_stack, 1, n - 1)
                              \o <<Len(blocks) + 2, Len(blocks) + 1>>
                    /\ loop_stack' = loop_stack \o <<Len(blocks) + 1>>
              /\ (ch = "]" /\ n > 1) =>
                    /\ block_stack' = SubSeq(block_stack, 1, n - 1)
                    /\ loop_stack' =
                          SubSeq(loop_stack, 1, Len(loop_stack) - 1)
              /\ ch \notin {"[", "]"} =>
                    <<block_stack, loop_stack, builder>>'
                        = <<block_stack, loop_stack, builder>>
      ]_vars

C20_Witness ==
    /\ prog = Nested
    /\ pc = "scan"
    /\ i = 6
    /\ block_stack = <<3, 5>>
    /\ loop_stack = <<2>>

====
